---- MODULE Spec2Model ----
(***************************************************************************)
(* State-machine model of the FastAPI calculator backend:                  *)
(*   app/api/auth.py          the account lifecycle handlers               *)
(*   app/api/calculations.py  the owner-scoped calculation handlers        *)
(*   app/core/config.py       the token lifetimes                          *)
(* Every handler is one atomic action (one request, one database session). *)
(* app/models/user.py and app/models/calculation.py are not part of the    *)
(* source tree at hand; the methods the handlers call on User and          *)
(* Calculation are modelled from the written specification and are marked  *)
(* "spec" in the comments below.                                           *)
(* Time is counted in minutes.                                             *)
(***************************************************************************)
EXTENDS Integers, Sequences, FiniteSets, TLC

VARIABLES
    users,      \* the users table: a sequence of rows, the id is the position
    calcs,      \* the calculations table: a sequence of rows in insertion order
    nextCalcId, \* the next calculation id (ids are never reused)
    now,        \* the clock, in minutes
    ticks,      \* how many times the clock has advanced
    nextTok,    \* the next opaque (verification / reset) token to be drawn
    issued,     \* the signed tokens returned to clients so far
    req,        \* the request handled last
    resp,       \* its response
    outbox,     \* the e-mail tasks queued so far
    sent,       \* the e-mail tasks run so far, each with what _send_email returned
    txns        \* the requests in progress that are followed statement by statement

vars == <<users, calcs, nextCalcId, now, ticks, nextTok, issued, req, resp, outbox, sent, txns>>

---------------------------------------------------------------------------
(* Bounds of the model *)

MaxTokens == 2
MaxTicks == 1
MaxLogins == 1
MaxCalcs == 1

---------------------------------------------------------------------------
(* Configuration, app/core/config.py *)

ACCESS_TOKEN_EXPIRE_MINUTES == 30
REFRESH_TOKEN_EXPIRE_DAYS == 7
EMAIL_VERIFICATION_EXPIRE_HOURS == 24
PASSWORD_RESET_EXPIRE_MINUTES == 60
MinPasswordLen == 6

MinutesPerHour == 60
MinutesPerDay == 1440

---------------------------------------------------------------------------
(* Inputs *)

Usernames == {"alice", "bob"}
Emails == {"alice@x.org", "bob@x.org"}
Passwords == {"secret1", "abc"}
\* the opaque tokens a client may present: the ones that can be drawn, and
\* one that never is
OpaqueTokens == 1..(MaxTokens + 1)

None == -1

---------------------------------------------------------------------------
(* Responses *)

Response(status, detail, headers, data) ==
    [status |-> status, detail |-> detail, headers |-> headers, data |-> data]

HTTPException(status, detail) == Response(status, detail, <<>>, <<>>)

Request(op, args) == [op |-> op, args |-> args]

---------------------------------------------------------------------------
(* User model (spec) *)

\* User.hash_password / verify_password: a one-way hash, verified by
\* hashing again
hash_password(pw) == <<"hash", pw>>
verify_password(pw, hashed) == hash_password(pw) = hashed

UserIds == 1..Len(users)

\* .first(): the first row of a selection, None when it is empty
First(S) == IF S = {} THEN None ELSE CHOOSE i \in S : \A j \in S : i <= j

\* db.query(User).filter(<column> == value).first()
UserByEmail(email) == First({i \in UserIds : users[i].email = email})
UserByVerificationToken(token) == First({i \in UserIds : users[i].verification_token = token})
UserByResetToken(token) == First({i \in UserIds : users[i].reset_token = token})
UserByUsernameOrEmail(name) ==
    First({i \in UserIds : users[i].username = name \/ users[i].email = name})

\* User.register: uniqueness of username and e-mail, else ValueError
DuplicateIdentity(username, email) ==
    \E i \in UserIds : users[i].username = username \/ users[i].email = email

\* User.register: the row of a new user, unverified, active, with a
\* verification token that expires in 24 hours
NewUser(username, email, password, token) ==
    [username |-> username,
     email |-> email,
     password |-> hash_password(password),
     is_active |-> TRUE,
     is_verified |-> FALSE,
     verification_token |-> token,
     verification_token_expires |-> now + EMAIL_VERIFICATION_EXPIRE_HOURS * MinutesPerHour,
     reset_token |-> None,
     reset_token_expires |-> None]

\* user.verify_email_token(token): FALSE once past the expiry
verify_email_token(u, token) ==
    /\ u.verification_token = token
    /\ u.verification_token_expires # None
    /\ ~(now > u.verification_token_expires)

\* user.verify_email_token(token), its effect on success
Verified(u) ==
    [u EXCEPT !.is_verified = TRUE,
              !.verification_token = None,
              !.verification_token_expires = None]

\* user.generate_verification_token(): a new token, 24 hours
generate_verification_token(u, token) ==
    [u EXCEPT !.verification_token = token,
              !.verification_token_expires = now + EMAIL_VERIFICATION_EXPIRE_HOURS * MinutesPerHour]

\* user.generate_reset_token(): a new token, 1 hour
generate_reset_token(u, token) ==
    [u EXCEPT !.reset_token = token,
              !.reset_token_expires = now + PASSWORD_RESET_EXPIRE_MINUTES]

\* user.verify_reset_token(token): FALSE once past the expiry
verify_reset_token(u, token) ==
    /\ u.reset_token = token
    /\ u.reset_token_expires # None
    /\ ~(now > u.reset_token_expires)

\* User.create_access_token / User.create_refresh_token: a signed token that
\* names its kind, its subject and its expiry
create_access_token(sub) ==
    [kind |-> "access", sub |-> sub, exp |-> now + ACCESS_TOKEN_EXPIRE_MINUTES]
create_refresh_token(sub) ==
    [kind |-> "refresh", sub |-> sub, exp |-> now + REFRESH_TOKEN_EXPIRE_DAYS * MinutesPerDay]

\* User.authenticate(db, username_or_email, password): None when no user
\* has that username or e-mail or the password does not match, else the
\* user with a fresh token pair
authenticate(name, password) ==
    LET id == UserByUsernameOrEmail(name) IN
    IF id = None THEN None
    ELSE IF ~verify_password(password, users[id].password) THEN None
    ELSE id

auth_result(id) ==
    [access_token |-> create_access_token(id),
     refresh_token |-> create_refresh_token(id),
     token_type |-> "bearer",
     expires_at |-> now + ACCESS_TOKEN_EXPIRE_MINUTES,
     user |-> id]

---------------------------------------------------------------------------
(* Requests in progress.  A request that is followed statement by statement *)
(* has its own database session: what it has loaded and assigned is in its  *)
(* record here until it commits.                                            *)

\* two requests can be in progress at a time
Slots == {"r1", "r2"}

Idle ==
    [op |-> "none", pc |-> "idle", token |-> None, new_password |-> "",
     user |-> None, expires |-> None, status |-> 0, crashed |-> FALSE]

---------------------------------------------------------------------------
(* Initial state: empty tables, nothing handled yet, no request in progress *)

Init ==
    /\ users = <<>>
    /\ calcs = <<>>
    /\ nextCalcId = 1
    /\ now = 0
    /\ ticks = 0
    /\ nextTok = 1
    /\ issued = {}
    /\ req = Request("none", <<>>)
    /\ resp = Response(0, "", <<>>, <<>>)
    /\ outbox = {}
    /\ sent = {}
    /\ txns = [s \in Slots |-> Idle]

---------------------------------------------------------------------------
(* POST /api/auth/register *)

\* register_user as it would be if the ValueError of a duplicate were ignored
register_user_IgnoresDuplicate(username, email, password) ==
    /\ req' = Request("register", <<username, email, password>>)
    /\ users' = Append(users, NewUser(username, email, password, nextTok))
    /\ nextTok' = nextTok + 1
    /\ outbox' = outbox \cup {[task |-> "send_verification_email", to |-> email, token |-> nextTok]}
    /\ resp' = Response(201, "", <<>>, <<Len(users) + 1, username, email>>)
    /\ UNCHANGED <<calcs, nextCalcId, now, ticks, issued>>
    /\ UNCHANGED sent
    /\ UNCHANGED txns

register_user(username, email, password) ==
    /\ req' = Request("register", <<username, email, password>>)
    /\ IF DuplicateIdentity(username, email)
       THEN \* ValueError: rollback, 400
            /\ resp' = HTTPException(400, "Username or email already exists")
            /\ UNCHANGED outbox
            /\ UNCHANGED <<users, nextTok>>
       ELSE /\ users' = Append(users, NewUser(username, email, password, nextTok))
            /\ nextTok' = nextTok + 1
            /\ outbox' = outbox \cup {[task |-> "send_verification_email", to |-> email, token |-> nextTok]}
            /\ resp' = Response(201, "", <<>>, <<Len(users) + 1, username, email>>)
    /\ UNCHANGED <<calcs, nextCalcId, now, ticks, issued>>
    /\ UNCHANGED sent
    /\ UNCHANGED txns

(* GET /api/auth/verify-email *)

\* verify_email as it would be with the details of its two errors swapped
verify_email_SwapsErrors(token) ==
    LET id == UserByVerificationToken(token) IN
    /\ req' = Request("verify_email", <<token>>)
    /\ IF id = None
       THEN /\ resp' = HTTPException(400, "Verification token has expired. Please request a new one.")
            /\ UNCHANGED outbox
            /\ UNCHANGED users
       ELSE IF ~verify_email_token(users[id], token)
       THEN /\ resp' = HTTPException(400, "Invalid verification token")
            /\ UNCHANGED outbox
            /\ UNCHANGED users
       ELSE /\ users' = [users EXCEPT ![id] = Verified(@)]
            /\ outbox' = outbox \cup {[task |-> "send_welcome_email", to |-> users[id].email, token |-> None]}
            /\ resp' = Response(200, "Email verified successfully! You can now log in.",
                                <<>>, <<users[id].email, TRUE>>)
    /\ UNCHANGED <<calcs, nextCalcId, now, ticks, nextTok, issued>>
    /\ UNCHANGED sent
    /\ UNCHANGED txns

verify_email(token) ==
    LET id == UserByVerificationToken(token) IN
    /\ req' = Request("verify_email", <<token>>)
    /\ IF id = None
       THEN /\ resp' = HTTPException(400, "Invalid verification token")
            /\ UNCHANGED outbox
            /\ UNCHANGED users
       ELSE IF ~verify_email_token(users[id], token)
       THEN /\ resp' = HTTPException(400, "Verification token has expired. Please request a new one.")
            /\ UNCHANGED outbox
            /\ UNCHANGED users
       ELSE /\ users' = [users EXCEPT ![id] = Verified(@)]
            /\ outbox' = outbox \cup {[task |-> "send_welcome_email", to |-> users[id].email, token |-> None]}
            /\ resp' = Response(200, "Email verified successfully! You can now log in.",
                                <<>>, <<users[id].email, TRUE>>)
    /\ UNCHANGED <<calcs, nextCalcId, now, ticks, nextTok, issued>>
    /\ UNCHANGED sent
    /\ UNCHANGED txns

(* POST /api/auth/resend-verification *)

resend_verification_response(email) ==
    LET id == UserByEmail(email) IN
    IF id = None
    THEN Response(200, "If the email exists, a verification link has been sent.", <<>>, <<>>)
    ELSE IF users[id].is_verified
    THEN HTTPException(400, "Email is already verified")
    ELSE Response(200, "Verification email sent successfully", <<>>, <<>>)

\* resend_verification_email as it would be if it mailed a new token and
\* left the stored one in place
resend_verification_email_KeepsOld(email) ==
    LET id == UserByEmail(email) IN
    /\ req' = Request("resend_verification", <<email>>)
    /\ resp' = resend_verification_response(email)
    /\ IF id = None \/ users[id].is_verified
       THEN UNCHANGED <<users, nextTok, outbox>>
       ELSE /\ users' = users
            /\ nextTok' = nextTok + 1
            /\ outbox' = outbox \cup {[task |-> "send_verification_email", to |-> users[id].email, token |-> nextTok]}
    /\ UNCHANGED <<calcs, nextCalcId, now, ticks, issued>>
    /\ UNCHANGED sent
    /\ UNCHANGED txns

resend_verification_email(email) ==
    LET id == UserByEmail(email) IN
    /\ req' = Request("resend_verification", <<email>>)
    /\ resp' = resend_verification_response(email)
    /\ IF id = None \/ users[id].is_verified
       THEN UNCHANGED <<users, nextTok, outbox>>
       ELSE /\ users' = [users EXCEPT ![id] = generate_verification_token(@, nextTok)]
            /\ nextTok' = nextTok + 1
            /\ outbox' = outbox \cup {[task |-> "send_verification_email", to |-> users[id].email, token |-> nextTok]}
    /\ UNCHANGED <<calcs, nextCalcId, now, ticks, issued>>
    /\ UNCHANGED sent
    /\ UNCHANGED txns

(* POST /api/auth/login *)

LoginSuccess(id) ==
    LET r == auth_result(id) IN
    Response(200, "", <<>>,
             <<r.access_token, r.refresh_token, r.token_type, r.expires_at, r.user>>)

\* login as it would be if it tested is_active before is_verified
login_response_ActiveFirst(username, password) ==
    LET id == authenticate(username, password) IN
    IF id = None
    THEN Response(401, "Incorrect username or password", <<"WWW-Authenticate", "Bearer">>, <<>>)
    ELSE IF ~users[id].is_active
    THEN HTTPException(403, "Account is inactive. Please contact support.")
    ELSE IF ~users[id].is_verified
    THEN HTTPException(403, "Please verify your email before logging in. Check your inbox for the verification link.")
    ELSE LoginSuccess(id)

\* login as it would be without the is_verified test
login_response_SkipsVerified(username, password) ==
    LET id == authenticate(username, password) IN
    IF id = None
    THEN Response(401, "Incorrect username or password", <<"WWW-Authenticate", "Bearer">>, <<>>)
    ELSE IF ~users[id].is_active
    THEN HTTPException(403, "Account is inactive. Please contact support.")
    ELSE LoginSuccess(id)

\* login as it would be if it told an unknown user apart from a wrong
\* password
login_response_TellsUnknown(username, password) ==
    LET id == authenticate(username, password) IN
    IF UserByUsernameOrEmail(username) = None
    THEN Response(401, "User not found", <<"WWW-Authenticate", "Bearer">>, <<>>)
    ELSE IF id = None
    THEN Response(401, "Incorrect username or password", <<"WWW-Authenticate", "Bearer">>, <<>>)
    ELSE IF ~users[id].is_verified
    THEN HTTPException(403, "Please verify your email before logging in. Check your inbox for the verification link.")
    ELSE IF ~users[id].is_active
    THEN HTTPException(403, "Account is inactive. Please contact support.")
    ELSE LoginSuccess(id)

login_response(username, password) ==
    LET id == authenticate(username, password) IN
    IF id = None
    THEN Response(401, "Incorrect username or password", <<"WWW-Authenticate", "Bearer">>, <<>>)
    ELSE IF ~users[id].is_verified
    THEN HTTPException(403, "Please verify your email before logging in. Check your inbox for the verification link.")
    ELSE IF ~users[id].is_active
    THEN HTTPException(403, "Account is inactive. Please contact support.")
    ELSE LoginSuccess(id)

login(username, password) ==
    /\ req' = Request("login", <<username, password>>)
    /\ resp' = login_response(username, password)
    /\ issued' = IF resp'.status = 200
                 THEN issued \cup {resp'.data[1], resp'.data[2]}
                 ELSE issued
    /\ UNCHANGED <<users, calcs, nextCalcId, now, ticks, nextTok, outbox>>
    /\ UNCHANGED sent
    /\ UNCHANGED txns

(* POST /api/auth/forgot-password *)

\* forgot_password as it would be if it told an unknown e-mail apart
forgot_password_Reveals(email) ==
    LET id == UserByEmail(email) IN
    /\ req' = Request("forgot_password", <<email>>)
    /\ IF id = None
       THEN /\ resp' = Response(200, "No account with this email.", <<>>, <<>>)
            /\ UNCHANGED outbox
            /\ UNCHANGED <<users, nextTok>>
       ELSE /\ resp' = Response(200, "If the email exists, a password reset link has been sent.", <<>>, <<>>)
            /\ users' = [users EXCEPT ![id] = generate_reset_token(@, nextTok)]
            /\ nextTok' = nextTok + 1
            /\ outbox' = outbox \cup {[task |-> "send_password_reset_email", to |-> users[id].email, token |-> nextTok]}
    /\ UNCHANGED <<calcs, nextCalcId, now, ticks, issued>>
    /\ UNCHANGED sent
    /\ UNCHANGED txns

forgot_password(email) ==
    LET id == UserByEmail(email) IN
    /\ req' = Request("forgot_password", <<email>>)
    /\ resp' = Response(200, "If the email exists, a password reset link has been sent.", <<>>, <<>>)
    /\ IF id = None
       THEN /\ UNCHANGED outbox
            /\ UNCHANGED <<users, nextTok>>
       ELSE /\ users' = [users EXCEPT ![id] = generate_reset_token(@, nextTok)]
            /\ nextTok' = nextTok + 1
            /\ outbox' = outbox \cup {[task |-> "send_password_reset_email", to |-> users[id].email, token |-> nextTok]}
    /\ UNCHANGED <<calcs, nextCalcId, now, ticks, issued>>
    /\ UNCHANGED sent
    /\ UNCHANGED txns

(* POST /api/auth/reset-password *)

\* reset_password as it would be if it did not clear the consumed token
reset_password_KeepsToken(token, new_password) ==
    LET id == UserByResetToken(token) IN
    /\ req' = Request("reset_password", <<token, new_password>>)
    /\ UNCHANGED outbox
    /\ IF id = None
       THEN /\ resp' = HTTPException(400, "Invalid reset token")
            /\ UNCHANGED users
       ELSE IF ~verify_reset_token(users[id], token)
       THEN /\ resp' = HTTPException(400, "Reset token has expired. Please request a new one.")
            /\ UNCHANGED users
       ELSE IF Len(new_password) < MinPasswordLen
       THEN /\ resp' = HTTPException(400, "Password must be at least 6 characters long")
            /\ UNCHANGED users
       ELSE /\ users' = [users EXCEPT ![id].password = hash_password(new_password)]
            /\ resp' = Response(200, "Password reset successfully. You can now log in with your new password.", <<>>, <<>>)
    /\ UNCHANGED <<calcs, nextCalcId, now, ticks, nextTok, issued>>
    /\ UNCHANGED sent
    /\ UNCHANGED txns

\* reset_password as it would be if a refused password consumed the token
reset_password_WeakClearsToken(token, new_password) ==
    LET id == UserByResetToken(token) IN
    /\ req' = Request("reset_password", <<token, new_password>>)
    /\ UNCHANGED outbox
    /\ IF id = None
       THEN /\ resp' = HTTPException(400, "Invalid reset token")
            /\ UNCHANGED users
       ELSE IF ~verify_reset_token(users[id], token)
       THEN /\ resp' = HTTPException(400, "Reset token has expired. Please request a new one.")
            /\ UNCHANGED users
       ELSE IF Len(new_password) < MinPasswordLen
       THEN /\ resp' = HTTPException(400, "Password must be at least 6 characters long")
            /\ users' = [users EXCEPT ![id] =
                            [@ EXCEPT !.reset_token = None,
                                      !.reset_token_expires = None]]
       ELSE /\ users' = [users EXCEPT ![id] =
                            [@ EXCEPT !.password = hash_password(new_password),
                                      !.reset_token = None,
                                      !.reset_token_expires = None]]
            /\ resp' = Response(200, "Password reset successfully. You can now log in with your new password.", <<>>, <<>>)
    /\ UNCHANGED <<calcs, nextCalcId, now, ticks, nextTok, issued>>
    /\ UNCHANGED sent
    /\ UNCHANGED txns

\* reset_password as it would be without the test of the expiry
reset_password_IgnoresExpiry(token, new_password) ==
    LET id == UserByResetToken(token) IN
    /\ req' = Request("reset_password", <<token, new_password>>)
    /\ UNCHANGED outbox
    /\ IF id = None
       THEN /\ resp' = HTTPException(400, "Invalid reset token")
            /\ UNCHANGED users
       ELSE IF Len(new_password) < MinPasswordLen
       THEN /\ resp' = HTTPException(400, "Password must be at least 6 characters long")
            /\ UNCHANGED users
       ELSE /\ users' = [users EXCEPT ![id] =
                            [@ EXCEPT !.password = hash_password(new_password),
                                      !.reset_token = None,
                                      !.reset_token_expires = None]]
            /\ resp' = Response(200, "Password reset successfully. You can now log in with your new password.", <<>>, <<>>)
    /\ UNCHANGED <<calcs, nextCalcId, now, ticks, nextTok, issued>>
    /\ UNCHANGED sent
    /\ UNCHANGED txns

reset_password(token, new_password) ==
    LET id == UserByResetToken(token) IN
    /\ req' = Request("reset_password", <<token, new_password>>)
    /\ UNCHANGED outbox
    /\ IF id = None
       THEN /\ resp' = HTTPException(400, "Invalid reset token")
            /\ UNCHANGED users
       ELSE IF ~verify_reset_token(users[id], token)
       THEN /\ resp' = HTTPException(400, "Reset token has expired. Please request a new one.")
            /\ UNCHANGED users
       ELSE IF Len(new_password) < MinPasswordLen
       THEN /\ resp' = HTTPException(400, "Password must be at least 6 characters long")
            /\ UNCHANGED users
       ELSE /\ users' = [users EXCEPT ![id] =
                            [@ EXCEPT !.password = hash_password(new_password),
                                      !.reset_token = None,
                                      !.reset_token_expires = None]]
            /\ resp' = Response(200, "Password reset successfully. You can now log in with your new password.", <<>>, <<>>)
    /\ UNCHANGED <<calcs, nextCalcId, now, ticks, nextTok, issued>>
    /\ UNCHANGED sent
    /\ UNCHANGED txns

---------------------------------------------------------------------------
(* EmailService._send_email, run by the background task of a request after *)
(* its response: True when the transport took the message, False (nothing  *)
(* raised) when it did not                                                 *)

\* _send_email as it would be if a failure were raised to the request
_send_email_Raises(m, delivered) ==
    /\ m \in outbox
    /\ ~\E r \in sent : r.mail = m
    /\ sent' = sent \cup {[mail |-> m, result |-> delivered]}
    /\ resp' = IF delivered THEN resp
               ELSE HTTPException(500, "An error occurred during registration")
    /\ UNCHANGED <<users, calcs, nextCalcId, now, ticks, nextTok, issued, req, outbox>>
    /\ UNCHANGED txns

_send_email(m, delivered) ==
    /\ m \in outbox
    /\ ~\E r \in sent : r.mail = m
    /\ sent' = sent \cup {[mail |-> m, result |-> delivered]}
    /\ UNCHANGED <<users, calcs, nextCalcId, now, ticks, nextTok, issued, req, resp, outbox>>
    /\ UNCHANGED txns

---------------------------------------------------------------------------
(* Deactivation of an account, done out of band (no endpoint) *)

Deactivate(id) ==
    /\ users[id].is_active
    /\ users' = [users EXCEPT ![id].is_active = FALSE]
    /\ UNCHANGED <<calcs, nextCalcId, now, ticks, nextTok, issued, req, resp, outbox>>
    /\ UNCHANGED sent
    /\ UNCHANGED txns

---------------------------------------------------------------------------
(* The clock *)

Tick(d) ==
    /\ ticks < MaxTicks
    /\ now' = now + d
    /\ ticks' = ticks + 1
    /\ UNCHANGED <<users, calcs, nextCalcId, nextTok, issued, req, resp, outbox>>
    /\ UNCHANGED sent
    /\ UNCHANGED txns

---------------------------------------------------------------------------
(* Calculation model (spec) *)

Operations == {"add", "subtract", "multiply", "divide"}
\* operands are drawn so that every quotient is a whole number
Operands == {0, 2}

\* Calculation.calculate(): the result of the operation, DivisionByZero
\* for a division by zero
DivisionByZero(operation, operand1, operand2) ==
    operation = "divide" /\ operand2 = 0

f(operation, operand1, operand2) ==
    CASE operation = "add" -> operand1 + operand2
      [] operation = "subtract" -> operand1 - operand2
      [] operation = "multiply" -> operand1 * operand2
      [] operation = "divide" ->
            LET m == IF operand1 < 0 THEN -operand1 ELSE operand1
            IN CHOOSE q \in -m..m : q * operand2 = operand1

calculate(c) == [c EXCEPT !.result = f(c.operation, c.operand1, c.operand2)]

\* Calculation(user_id=..., operation=..., operand1=..., operand2=...)
Calculation(id, user_id, operation, operand1, operand2) ==
    [id |-> id, user_id |-> user_id, operation |-> operation,
     operand1 |-> operand1, operand2 |-> operand2, result |-> None]

\* get_current_active_user: the user an unexpired access token names, when
\* that user exists and is active
get_current_active_user(token) ==
    IF /\ token \in issued
       /\ token.kind = "access"
       /\ ~(now > token.exp)
       /\ token.sub \in UserIds
       /\ users[token.sub].is_active
    THEN token.sub
    ELSE None

Unauthorized ==
    Response(401, "Could not validate credentials", <<"WWW-Authenticate", "Bearer">>, <<>>)

NotFound == HTTPException(404, "Calculation not found")

CalcIdx == 1..Len(calcs)

\* db.query(Calculation).filter(Calculation.id == id,
\*                              Calculation.user_id == owner).first()
\* the lookup as it would be without the filter on the owner
FirstCalc_IgnoresOwner(id, owner) ==
    First({i \in CalcIdx : calcs[i].id = id})

FirstCalc(id, owner) ==
    First({i \in CalcIdx : calcs[i].id = id /\ calcs[i].user_id = owner})

\* db.query(Calculation).filter(Calculation.user_id == owner).all()
RECURSIVE OwnedFrom(_, _)
OwnedFrom(i, owner) ==
    IF i > Len(calcs) THEN <<>>
    ELSE IF calcs[i].user_id = owner
         THEN <<calcs[i]>> \o OwnedFrom(i + 1, owner)
         ELSE OwnedFrom(i + 1, owner)

Owned(owner) == OwnedFrom(1, owner)

\* .all() of a query without order_by: the rows selected, in the order the
\* database scans them, which the query does not determine
Orders(rows) ==
    LET n == Len(rows)
        Perms == {q \in [1..n -> 1..n] : \A a \in 1..n, b \in 1..n : a # b => q[a] # q[b]}
    IN {[i \in 1..n |-> rows[q[i]]] : q \in Perms}

\* .offset(skip).limit(limit)
Page(rows, skip, limit) ==
    SubSeq(rows, skip + 1, IF skip + limit < Len(rows) THEN skip + limit ELSE Len(rows))

\* the rows of a table without the one at position i
Without(rows, i) ==
    [j \in 1..(Len(rows) - 1) |-> IF j < i THEN rows[j] ELSE rows[j + 1]]

\* setattr(db_calculation, field, value) for every field of update_data
Apply(c, update_data) ==
    [k \in DOMAIN c |-> IF k \in DOMAIN update_data THEN update_data[k] ELSE c[k]]

\* CalculationUpdate.model_dump(exclude_unset=True): any of the three
\* fields, each optional
Unset == "unset"
UpdateData(operation, operand1, operand2) ==
    LET D == (IF operation = Unset THEN {} ELSE {"operation"})
             \cup (IF operand1 = None THEN {} ELSE {"operand1"})
             \cup (IF operand2 = None THEN {} ELSE {"operand2"})
    IN [k \in D |-> CASE k = "operation" -> operation
                      [] k = "operand1" -> operand1
                      [] k = "operand2" -> operand2]
Updates ==
    {UpdateData(o, a, b) : o \in Operations \cup {Unset},
                           a \in Operands \cup {None},
                           b \in Operands \cup {None}}

---------------------------------------------------------------------------
(* POST /api/auth/refresh *)

\* User.verify_token(refresh_token) (spec): the subject of a token that was
\* signed by this service, is of kind refresh and is not past its expiry,
\* else None
verify_token(token) ==
    IF /\ token \in issued
       /\ token.kind = "refresh"
       /\ ~(now > token.exp)
    THEN token.sub
    ELSE None

InvalidRefreshToken ==
    Response(401, "Invalid refresh token", <<"WWW-Authenticate", "Bearer">>, <<>>)

\* db.query(User).filter(User.id == user_id).first()
UserById(user_id) == First({i \in UserIds : i = user_id})

\* refresh_token as it would be without the test of is_active
refresh_response_SkipsActive(token) ==
    LET user_id == verify_token(token)
        user == UserById(user_id)
    IN
    IF user_id = None
    THEN InvalidRefreshToken
    ELSE IF user = None
    THEN HTTPException(401, "User not found or inactive")
    ELSE Response(200, "", <<>>,
                  <<create_access_token(user), create_refresh_token(user), "bearer",
                    now + ACCESS_TOKEN_EXPIRE_MINUTES, user>>)

\* refresh_token as it would be if it took a token of any kind
refresh_response_AnyKind(token) ==
    LET user_id == IF token \in issued /\ ~(now > token.exp) THEN token.sub ELSE None
        user == UserById(user_id)
    IN
    IF user_id = None
    THEN InvalidRefreshToken
    ELSE IF user = None \/ ~users[user].is_active
    THEN HTTPException(401, "User not found or inactive")
    ELSE Response(200, "", <<>>,
                  <<create_access_token(user), create_refresh_token(user), "bearer",
                    now + ACCESS_TOKEN_EXPIRE_MINUTES, user>>)

refresh_response(token) ==
    LET user_id == verify_token(token)
        user == UserById(user_id)
    IN
    IF user_id = None
    THEN InvalidRefreshToken
    ELSE IF user = None \/ ~users[user].is_active
    THEN HTTPException(401, "User not found or inactive")
    ELSE Response(200, "", <<>>,
                  <<create_access_token(user), create_refresh_token(user), "bearer",
                    now + ACCESS_TOKEN_EXPIRE_MINUTES, user>>)

\* refresh_token as it would be if it invalidated the token it was given
refresh_token_Rotates(token) ==
    /\ req' = Request("refresh_token", <<token>>)
    /\ resp' = refresh_response(token)
    /\ issued' = IF resp'.status = 200
                 THEN (issued \ {token}) \cup {resp'.data[1], resp'.data[2]}
                 ELSE issued
    /\ UNCHANGED <<users, calcs, nextCalcId, now, ticks, nextTok, outbox>>
    /\ UNCHANGED sent
    /\ UNCHANGED txns

refresh_token(token) ==
    /\ req' = Request("refresh_token", <<token>>)
    /\ resp' = refresh_response(token)
    /\ issued' = IF resp'.status = 200
                 THEN issued \cup {resp'.data[1], resp'.data[2]}
                 ELSE issued
    /\ UNCHANGED <<users, calcs, nextCalcId, now, ticks, nextTok, outbox>>
    /\ UNCHANGED sent
    /\ UNCHANGED txns

(* POST /api/auth/logout *)

\* logout as it would be if it revoked the tokens of the user
logout_Revokes(token) ==
    LET user == get_current_active_user(token) IN
    /\ req' = Request("logout", <<token>>)
    /\ resp' = IF user = None THEN Unauthorized
               ELSE Response(200, "Logged out successfully", <<>>, <<users[user].username>>)
    /\ issued' = IF user = None THEN issued ELSE {t \in issued : t.sub # user}
    /\ UNCHANGED <<users, calcs, nextCalcId, now, ticks, nextTok, outbox>>
    /\ UNCHANGED sent
    /\ UNCHANGED txns

logout(token) ==
    LET user == get_current_active_user(token) IN
    /\ req' = Request("logout", <<token>>)
    /\ resp' = IF user = None THEN Unauthorized
               ELSE Response(200, "Logged out successfully", <<>>, <<users[user].username>>)
    /\ UNCHANGED <<users, calcs, nextCalcId, now, ticks, nextTok, issued, outbox>>
    /\ UNCHANGED sent
    /\ UNCHANGED txns

(* GET /api/auth/me *)

get_current_user_info(token) ==
    LET user == get_current_active_user(token) IN
    /\ req' = Request("get_current_user_info", <<token>>)
    /\ resp' = IF user = None THEN Unauthorized
               ELSE Response(200, "", <<>>, <<user, users[user].username, users[user].email>>)
    /\ UNCHANGED <<users, calcs, nextCalcId, now, ticks, nextTok, issued, outbox>>
    /\ UNCHANGED sent
    /\ UNCHANGED txns

(* Removal of an account, done out of band (no endpoint).  Ids are positions *)
(* in the table, so it is the newest account that is removed.               *)

Remove(id) ==
    /\ id = Len(users)
    /\ \A i \in CalcIdx : calcs[i].user_id # id
    /\ users' = SubSeq(users, 1, Len(users) - 1)
    /\ UNCHANGED <<calcs, nextCalcId, now, ticks, nextTok, issued, req, resp, outbox>>
    /\ UNCHANGED sent
    /\ UNCHANGED txns

---------------------------------------------------------------------------
(* POST /api/calculations/ *)

\* create_calculation as it would be if the row were added and committed
\* before its result is computed
create_calculation_AddsFirst(token, operation, operand1, operand2) ==
    LET user == get_current_active_user(token)
        db_calculation == Calculation(nextCalcId, user, operation, operand1, operand2)
    IN
    /\ req' = Request("create_calculation", <<token, operation, operand1, operand2>>)
    /\ UNCHANGED outbox
    /\ IF user = None
       THEN /\ resp' = Unauthorized
            /\ UNCHANGED <<calcs, nextCalcId>>
       ELSE IF DivisionByZero(operation, operand1, operand2)
       THEN /\ calcs' = Append(calcs, db_calculation)
            /\ nextCalcId' = nextCalcId + 1
            /\ resp' = HTTPException(400, "Cannot divide by zero")
       ELSE /\ calcs' = Append(calcs, calculate(db_calculation))
            /\ nextCalcId' = nextCalcId + 1
            /\ resp' = Response(201, "", <<>>, <<calculate(db_calculation)>>)
    /\ UNCHANGED <<users, now, ticks, nextTok, issued>>
    /\ UNCHANGED sent
    /\ UNCHANGED txns

create_calculation(token, operation, operand1, operand2) ==
    LET user == get_current_active_user(token)
        db_calculation == Calculation(nextCalcId, user, operation, operand1, operand2)
    IN
    /\ req' = Request("create_calculation", <<token, operation, operand1, operand2>>)
    /\ UNCHANGED outbox
    /\ IF user = None
       THEN /\ resp' = Unauthorized
            /\ UNCHANGED <<calcs, nextCalcId>>
       ELSE IF DivisionByZero(operation, operand1, operand2)
       THEN \* calculate() raises before db.add
            /\ resp' = HTTPException(400, "Cannot divide by zero")
            /\ UNCHANGED <<calcs, nextCalcId>>
       ELSE /\ calcs' = Append(calcs, calculate(db_calculation))
            /\ nextCalcId' = nextCalcId + 1
            /\ resp' = Response(201, "", <<>>, <<calculate(db_calculation)>>)
    /\ UNCHANGED <<users, now, ticks, nextTok, issued>>
    /\ UNCHANGED sent
    /\ UNCHANGED txns

(* GET /api/calculations/ *)

list_calculations(token, skip, limit) ==
    LET user == get_current_active_user(token) IN
    /\ req' = Request("list_calculations", <<token, skip, limit>>)
    /\ UNCHANGED outbox
    /\ IF user = None
       THEN resp' = Unauthorized
       ELSE \E rows \in Orders(Owned(user)) :
               resp' = Response(200, "", <<>>, Page(rows, skip, limit))
    /\ UNCHANGED <<users, calcs, nextCalcId, now, ticks, nextTok, issued>>
    /\ UNCHANGED sent
    /\ UNCHANGED txns

(* GET /api/calculations/{calculation_id} *)

get_calculation(token, calculation_id) ==
    LET user == get_current_active_user(token)
        i == FirstCalc(calculation_id, user)
    IN
    /\ req' = Request("get_calculation", <<token, calculation_id>>)
    /\ UNCHANGED outbox
    /\ resp' = IF user = None THEN Unauthorized
               ELSE IF i = None THEN NotFound
               ELSE Response(200, "", <<>>, <<calcs[i]>>)
    /\ UNCHANGED <<users, calcs, nextCalcId, now, ticks, nextTok, issued>>
    /\ UNCHANGED sent
    /\ UNCHANGED txns

(* PUT /api/calculations/{calculation_id} *)

\* update_calculation as it would be without the recalculation
update_calculation_NoRecalc(token, calculation_id, update_data) ==
    LET user == get_current_active_user(token)
        i == FirstCalc(calculation_id, user)
        updated == Apply(calcs[i], update_data)
    IN
    /\ req' = Request("update_calculation", <<token, calculation_id, update_data>>)
    /\ UNCHANGED outbox
    /\ IF user = None
       THEN /\ resp' = Unauthorized
            /\ UNCHANGED calcs
       ELSE IF i = None
       THEN /\ resp' = NotFound
            /\ UNCHANGED calcs
       ELSE /\ calcs' = [calcs EXCEPT ![i] = updated]
            /\ resp' = Response(200, "", <<>>, <<updated>>)
    /\ UNCHANGED <<users, nextCalcId, now, ticks, nextTok, issued>>
    /\ UNCHANGED sent
    /\ UNCHANGED txns

\* update_calculation as it would be if the fields were committed before
\* the result is computed
update_calculation_CommitsFirst(token, calculation_id, update_data) ==
    LET user == get_current_active_user(token)
        i == FirstCalc(calculation_id, user)
        updated == Apply(calcs[i], update_data)
    IN
    /\ req' = Request("update_calculation", <<token, calculation_id, update_data>>)
    /\ UNCHANGED outbox
    /\ IF user = None
       THEN /\ resp' = Unauthorized
            /\ UNCHANGED calcs
       ELSE IF i = None
       THEN /\ resp' = NotFound
            /\ UNCHANGED calcs
       ELSE IF DivisionByZero(updated.operation, updated.operand1, updated.operand2)
       THEN /\ resp' = HTTPException(400, "Cannot divide by zero")
            /\ calcs' = [calcs EXCEPT ![i] = updated]
       ELSE /\ calcs' = [calcs EXCEPT ![i] = calculate(updated)]
            /\ resp' = Response(200, "", <<>>, <<calculate(updated)>>)
    /\ UNCHANGED <<users, nextCalcId, now, ticks, nextTok, issued>>
    /\ UNCHANGED sent
    /\ UNCHANGED txns

update_calculation(token, calculation_id, update_data) ==
    LET user == get_current_active_user(token)
        i == FirstCalc(calculation_id, user)
        updated == Apply(calcs[i], update_data)
    IN
    /\ req' = Request("update_calculation", <<token, calculation_id, update_data>>)
    /\ UNCHANGED outbox
    /\ IF user = None
       THEN /\ resp' = Unauthorized
            /\ UNCHANGED calcs
       ELSE IF i = None
       THEN /\ resp' = NotFound
            /\ UNCHANGED calcs
       ELSE IF DivisionByZero(updated.operation, updated.operand1, updated.operand2)
       THEN \* calculate() raises before db.commit
            /\ resp' = HTTPException(400, "Cannot divide by zero")
            /\ UNCHANGED calcs
       ELSE /\ calcs' = [calcs EXCEPT ![i] = calculate(updated)]
            /\ resp' = Response(200, "", <<>>, <<calculate(updated)>>)
    /\ UNCHANGED <<users, nextCalcId, now, ticks, nextTok, issued>>
    /\ UNCHANGED sent
    /\ UNCHANGED txns

(* DELETE /api/calculations/{calculation_id} *)

delete_calculation(token, calculation_id) ==
    LET user == get_current_active_user(token)
        i == FirstCalc(calculation_id, user)
    IN
    /\ req' = Request("delete_calculation", <<token, calculation_id>>)
    /\ UNCHANGED outbox
    /\ IF user = None
       THEN /\ resp' = Unauthorized
            /\ UNCHANGED calcs
       ELSE IF i = None
       THEN /\ resp' = NotFound
            /\ UNCHANGED calcs
       ELSE /\ calcs' = Without(calcs, i)
            /\ resp' = Response(204, "", <<>>, <<>>)
    /\ UNCHANGED <<users, nextCalcId, now, ticks, nextTok, issued>>
    /\ UNCHANGED sent
    /\ UNCHANGED txns

(* GET /api/calculations/stats/summary *)

get_calculation_stats(token) ==
    LET user == get_current_active_user(token)
        rows == Owned(user)
        count(op) == Cardinality({j \in 1..Len(rows) : rows[j].operation = op})
        operations_dict == [op \in {rows[j].operation : j \in 1..Len(rows)} |-> count(op)]
    IN
    /\ req' = Request("get_calculation_stats", <<token>>)
    /\ UNCHANGED outbox
    /\ resp' = IF user = None THEN Unauthorized
               ELSE Response(200, "", <<>>,
                             <<Len(rows), operations_dict,
                               <<user, users[user].username, users[user].email>> >>)
    /\ UNCHANGED <<users, calcs, nextCalcId, now, ticks, nextTok, issued>>
    /\ UNCHANGED sent
    /\ UNCHANGED txns

---------------------------------------------------------------------------
(* verify_email and reset_password, statement by statement.  A request     *)
(* takes a slot, runs its statements one at a time against its own session *)
(* and ends with a response; the table `users' is what the database holds  *)
(* durably, and a session's assignments reach it only in db.commit().      *)
(* Requests in different slots interleave freely: the handlers take no     *)
(* lock and the query is a plain SELECT.                                   *)

Running(s) == txns[s].pc \notin {"idle", "done"} /\ ~txns[s].crashed

\* the request in slot s ends with this response
Return(s, response) ==
    /\ txns' = [txns EXCEPT ![s] = [@ EXCEPT !.pc = "done", !.status = response.status]]
    /\ resp' = response

\* the request in slot s goes on to its next statement
Goto(s, pc) == txns' = [txns EXCEPT ![s] = [@ EXCEPT !.pc = pc]]

\* a request arrives and gets its session
Begin(s, op, token, new_password) ==
    /\ txns[s].pc = "idle"
    /\ txns' = [txns EXCEPT ![s] = [Idle EXCEPT !.op = op, !.pc = "lookup",
                                                !.token = token,
                                                !.new_password = new_password]]
    /\ UNCHANGED <<users, calcs, nextCalcId, now, ticks, nextTok, issued, req, resp,
                   outbox, sent>>

\* user = db.query(User).filter(User.verification_token == token).first()
verify_email_lookup(s) ==
    LET id == UserByVerificationToken(txns[s].token) IN
    /\ Running(s) /\ txns[s].op = "verify_email" /\ txns[s].pc = "lookup"
    /\ IF id = None
       THEN /\ req' = Request("verify_email", <<txns[s].token>>)
            /\ Return(s, HTTPException(400, "Invalid verification token"))
       ELSE /\ txns' = [txns EXCEPT ![s] =
                           [@ EXCEPT !.pc = "check", !.user = id,
                                     !.expires = users[id].verification_token_expires]]
            /\ UNCHANGED <<req, resp>>
    /\ UNCHANGED <<users, calcs, nextCalcId, now, ticks, nextTok, issued, outbox, sent>>

\* user.verify_email_token(token) on the object that was loaded: past its
\* expiry the request fails, otherwise the object is marked verified and its
\* token cleared, in the session
verify_email_check(s) ==
    /\ Running(s) /\ txns[s].op = "verify_email" /\ txns[s].pc = "check"
    /\ IF txns[s].expires = None \/ now > txns[s].expires
       THEN /\ req' = Request("verify_email", <<txns[s].token>>)
            /\ Return(s, HTTPException(400, "Verification token has expired. Please request a new one."))
       ELSE /\ Goto(s, "commit")
            /\ UNCHANGED <<req, resp>>
    /\ UNCHANGED <<users, calcs, nextCalcId, now, ticks, nextTok, issued, outbox, sent>>

\* db.commit(): the assignments of the session become durable together
verify_email_commit(s) ==
    /\ Running(s) /\ txns[s].op = "verify_email" /\ txns[s].pc = "commit"
    /\ users' = [users EXCEPT ![txns[s].user] = Verified(@)]
    /\ Goto(s, "respond")
    /\ UNCHANGED <<calcs, nextCalcId, now, ticks, nextTok, issued, req, resp, outbox, sent>>

\* the welcome e-mail is queued and the success response returned
verify_email_respond(s) ==
    LET id == txns[s].user IN
    /\ Running(s) /\ txns[s].op = "verify_email" /\ txns[s].pc = "respond"
    /\ outbox' = outbox \cup {[task |-> "send_welcome_email", to |-> users[id].email, token |-> None]}
    /\ req' = Request("verify_email", <<txns[s].token>>)
    /\ Return(s, Response(200, "Email verified successfully! You can now log in.",
                          <<>>, <<users[id].email, TRUE>>))
    /\ UNCHANGED <<users, calcs, nextCalcId, now, ticks, nextTok, issued, sent>>

\* user = db.query(User).filter(User.reset_token == token).first()
reset_password_lookup(s) ==
    LET id == UserByResetToken(txns[s].token) IN
    /\ Running(s) /\ txns[s].op = "reset_password" /\ txns[s].pc = "lookup"
    /\ IF id = None
       THEN /\ req' = Request("reset_password", <<txns[s].token, txns[s].new_password>>)
            /\ Return(s, HTTPException(400, "Invalid reset token"))
       ELSE /\ txns' = [txns EXCEPT ![s] =
                           [@ EXCEPT !.pc = "check", !.user = id,
                                     !.expires = users[id].reset_token_expires]]
            /\ UNCHANGED <<req, resp>>
    /\ UNCHANGED <<users, calcs, nextCalcId, now, ticks, nextTok, issued, outbox, sent>>

\* user.verify_reset_token(token) on the object that was loaded, then the
\* length of the new password
reset_password_check(s) ==
    /\ Running(s) /\ txns[s].op = "reset_password" /\ txns[s].pc = "check"
    /\ IF txns[s].expires = None \/ now > txns[s].expires
       THEN /\ req' = Request("reset_password", <<txns[s].token, txns[s].new_password>>)
            /\ Return(s, HTTPException(400, "Reset token has expired. Please request a new one."))
       ELSE IF Len(txns[s].new_password) < MinPasswordLen
       THEN /\ req' = Request("reset_password", <<txns[s].token, txns[s].new_password>>)
            /\ Return(s, HTTPException(400, "Password must be at least 6 characters long"))
       ELSE /\ Goto(s, "write")
            /\ UNCHANGED <<req, resp>>
    /\ UNCHANGED <<users, calcs, nextCalcId, now, ticks, nextTok, issued, outbox, sent>>

\* reset_password as it would be if each assignment were written to the
\* database at once: the password is durable before the token is cleared
reset_password_write_Autocommit(s) ==
    /\ Running(s) /\ txns[s].op = "reset_password" /\ txns[s].pc = "write"
    /\ users' = [users EXCEPT ![txns[s].user] =
                    [@ EXCEPT !.password = hash_password(txns[s].new_password)]]
    /\ Goto(s, "commit")
    /\ UNCHANGED <<calcs, nextCalcId, now, ticks, nextTok, issued, req, resp, outbox, sent>>

\* user.password = ...; user.reset_token = None; user.reset_token_expires =
\* None: assignments to the loaded object, held in the session
reset_password_write(s) ==
    /\ Running(s) /\ txns[s].op = "reset_password" /\ txns[s].pc = "write"
    /\ Goto(s, "commit")
    /\ UNCHANGED <<users, calcs, nextCalcId, now, ticks, nextTok, issued, req, resp,
                   outbox, sent>>

\* db.commit() as it would be if it left the reset token in place
reset_password_commit_KeepsToken(s) ==
    /\ Running(s) /\ txns[s].op = "reset_password" /\ txns[s].pc = "commit"
    /\ users' = [users EXCEPT ![txns[s].user] =
                    [@ EXCEPT !.password = hash_password(txns[s].new_password)]]
    /\ Goto(s, "respond")
    /\ UNCHANGED <<calcs, nextCalcId, now, ticks, nextTok, issued, req, resp, outbox, sent>>

\* db.commit(): the three assignments are written to the row of the loaded
\* user, whatever it holds by now, and become durable together
reset_password_commit(s) ==
    /\ Running(s) /\ txns[s].op = "reset_password" /\ txns[s].pc = "commit"
    /\ users' = [users EXCEPT ![txns[s].user] =
                    [@ EXCEPT !.password = hash_password(txns[s].new_password),
                              !.reset_token = None,
                              !.reset_token_expires = None]]
    /\ Goto(s, "respond")
    /\ UNCHANGED <<calcs, nextCalcId, now, ticks, nextTok, issued, req, resp, outbox, sent>>

\* the success response is returned
reset_password_respond(s) ==
    /\ Running(s) /\ txns[s].op = "reset_password" /\ txns[s].pc = "respond"
    /\ req' = Request("reset_password", <<txns[s].token, txns[s].new_password>>)
    /\ Return(s, Response(200, "Password reset successfully. You can now log in with your new password.", <<>>, <<>>))
    /\ UNCHANGED <<users, calcs, nextCalcId, now, ticks, nextTok, issued, outbox, sent>>

\* The server process dies: every request in progress ends where it is,
\* without a response, and what its session held is lost; what was committed
\* stays.
Crash ==
    /\ \E s \in Slots : Running(s)
    /\ txns' = [s \in Slots |-> IF Running(s) THEN [txns[s] EXCEPT !.crashed = TRUE]
                                ELSE txns[s]]
    /\ UNCHANGED <<users, calcs, nextCalcId, now, ticks, nextTok, issued, req, resp,
                   outbox, sent>>

---------------------------------------------------------------------------
(* Specifications.  Each draws the requests of one part of the interface   *)
(* and keeps the counters within the bounds of the model.                  *)

\* registrations in which username and e-mail go together
Identities == {<<"alice", "alice@x.org">>, <<"bob", "bob@x.org">>}

CalcIds == 1..(MaxCalcs + 1)
Skips == 0..1
Limits == {2}
\* the request bodies of update_calculation that are drawn
SomeUpdates ==
    {UpdateData(Unset, None, None), UpdateData(Unset, None, 0),
     UpdateData("divide", None, None)}
\* the first operands of create_calculation that are drawn
FirstOperands == {2}

StoredVerificationTokens == {users[i].verification_token : i \in UserIds} \ {None}
AccessTokens == {t \in issued : t.kind = "access"}

TokensBounded == nextTok' <= MaxTokens + 1
LoginsBounded == Cardinality(issued') <= 2 * MaxLogins
\* a creation that would be stored is drawn only while ids are left
CalcsBounded(operation, operand1, operand2) ==
    nextCalcId <= MaxCalcs \/ DivisionByZero(operation, operand1, operand2)

\* The verification and login lifecycle
Next ==
    \/ \E i \in Identities, p \in Passwords :
          register_user(i[1], i[2], p) /\ TokensBounded
    \/ \E t \in OpaqueTokens : verify_email(t)
    \/ \E e \in Emails : resend_verification_email(e) /\ TokensBounded
    \/ \E n \in Usernames, p \in Passwords : login(n, p) /\ LoginsBounded
    \/ \E id \in UserIds : Deactivate(id)
    \/ \E d \in {EMAIL_VERIFICATION_EXPIRE_HOURS * MinutesPerHour + 1} : Tick(d)

Spec == Init /\ [][Next]_vars

\* The password reset lifecycle
NextReset ==
    \/ \E i \in Identities, p \in Passwords :
          register_user(i[1], i[2], p) /\ TokensBounded
    \/ \E e \in Emails : forgot_password(e) /\ TokensBounded
    \/ \E t \in OpaqueTokens, p \in Passwords : reset_password(t, p)
    \/ \E d \in {PASSWORD_RESET_EXPIRE_MINUTES + 1} : Tick(d)

SpecReset == Init /\ [][NextReset]_vars

\* The calculations of users who registered, verified and logged in
NextCalc ==
    \/ \E i \in Identities : register_user(i[1], i[2], "secret1") /\ TokensBounded
    \/ \E t \in StoredVerificationTokens : verify_email(t)
    \/ \E n \in Usernames : login(n, "secret1")
    \/ \E t \in AccessTokens, op \in Operations, a \in FirstOperands, b \in Operands :
          CalcsBounded(op, a, b) /\ create_calculation(t, op, a, b)
    \/ \E t \in AccessTokens, s \in Skips, l \in Limits : list_calculations(t, s, l)
    \/ \E t \in AccessTokens, c \in CalcIds : get_calculation(t, c)
    \/ \E t \in AccessTokens, c \in CalcIds, u \in SomeUpdates :
          update_calculation(t, c, u)
    \/ \E t \in AccessTokens, c \in CalcIds : delete_calculation(t, c)
    \/ \E t \in AccessTokens : get_calculation_stats(t)

SpecCalc == Init /\ [][NextCalc]_vars

\* the passwords a reset may ask for: one acceptable and different from the
\* one registered, and one too short
NewPasswords == {"secret2", "abc"}
\* the steps of the clock: past the life of a reset token, and past the life
\* of a verification token
Expiries == {PASSWORD_RESET_EXPIRE_MINUTES + 1,
             EMAIL_VERIFICATION_EXPIRE_HOURS * MinutesPerHour + 1}

\* The stored opaque tokens and their expiry
NextExpiry ==
    \/ \E i \in Identities : register_user(i[1], i[2], "secret1") /\ TokensBounded
    \/ \E t \in OpaqueTokens : verify_email(t)
    \/ \E e \in Emails : forgot_password(e) /\ TokensBounded
    \/ \E t \in OpaqueTokens, p \in NewPasswords : reset_password(t, p)
    \/ \E d \in Expiries : Tick(d)

SpecExpiry == Init /\ [][NextExpiry]_vars

\* a token that this service never signed
Forged == [kind |-> "refresh", sub |-> 1, exp |-> 0]
PresentedTokens == issued \cup {Forged}
\* the steps of the clock: past the life of an access token, and past the
\* life of a refresh token
Lifetimes == {ACCESS_TOKEN_EXPIRE_MINUTES + 1,
              REFRESH_TOKEN_EXPIRE_DAYS * MinutesPerDay + 1}

SessionsBounded == Cardinality(issued') <= 2 * (MaxLogins + 1)
\* ids are not reused: no registration is drawn after a removal
NoneRemoved == nextTok = Len(users) + 1

\* The sessions of users who registered and verified
NextSession ==
    \/ \E i \in Identities :
          register_user(i[1], i[2], "secret1") /\ TokensBounded /\ NoneRemoved
    \/ \E t \in StoredVerificationTokens : verify_email(t)
    \/ \E n \in Usernames : login(n, "secret1") /\ SessionsBounded
    \/ \E t \in PresentedTokens : refresh_token(t) /\ SessionsBounded
    \/ \E t \in PresentedTokens : logout(t)
    \/ \E t \in PresentedTokens : get_current_user_info(t)
    \/ \E id \in UserIds : Deactivate(id)
    \/ \E id \in UserIds : Remove(id)
    \/ \E d \in Lifetimes : Tick(d)

SpecSession == Init /\ [][NextSession]_vars

\* Registration with any username and any e-mail
NextRegister ==
    \/ \E n \in Usernames, e \in Emails, p \in Passwords :
          register_user(n, e, p) /\ TokensBounded
    \/ \E t \in OpaqueTokens : verify_email(t)
    \/ \E e \in Emails : resend_verification_email(e) /\ TokensBounded

SpecRegister == Init /\ [][NextRegister]_vars

\* The requests that queue an e-mail, and the e-mail transport
NextMail ==
    \/ \E i \in Identities : register_user(i[1], i[2], "secret1") /\ TokensBounded
    \/ \E t \in OpaqueTokens : verify_email(t)
    \/ \E e \in Emails : resend_verification_email(e) /\ TokensBounded
    \/ \E e \in Emails : forgot_password(e) /\ TokensBounded
    \/ \E m \in outbox, delivered \in BOOLEAN : _send_email(m, delivered)

SpecMail == Init /\ [][NextMail]_vars

\* the operations of create_calculation that are drawn
SomeOperations == {"add", "divide"}

\* Every handler that writes to the store, with one account
NextMutations ==
    \/ \E i \in {<<"alice", "alice@x.org">>} :
          register_user(i[1], i[2], "secret1") /\ TokensBounded
    \/ \E t \in OpaqueTokens : verify_email(t)
    \/ \E e \in Emails : resend_verification_email(e) /\ TokensBounded
    \/ \E e \in Emails : forgot_password(e) /\ TokensBounded
    \/ \E t \in OpaqueTokens, p \in NewPasswords : reset_password(t, p)
    \/ \E n \in {"alice"} : login(n, "secret1") /\ LoginsBounded
    \/ \E t \in AccessTokens, op \in SomeOperations, a \in FirstOperands, b \in Operands :
          CalcsBounded(op, a, b) /\ create_calculation(t, op, a, b)
    \/ \E t \in AccessTokens, c \in CalcIds, u \in SomeUpdates :
          update_calculation(t, c, u)
    \/ \E t \in AccessTokens, c \in CalcIds : delete_calculation(t, c)
    \/ \E d \in {EMAIL_VERIFICATION_EXPIRE_HOURS * MinutesPerHour + 1} : Tick(d)

SpecMutations == Init /\ [][NextMutations]_vars

\* a creation is drawn only while fewer than MaxCalcs + 1 ids are taken
ListBounded == nextCalcId <= MaxCalcs + 1
ListIds == 1..(MaxCalcs + 1)
ListSkips == 0..(MaxCalcs + 1)
ListLimits == 1..(MaxCalcs + 1)

\* The pages of a user with several calculations
NextList ==
    \/ \E i \in Identities : register_user(i[1], i[2], "secret1") /\ TokensBounded
    \/ \E t \in StoredVerificationTokens : verify_email(t)
    \/ \E n \in Usernames : login(n, "secret1") /\ LoginsBounded
    \/ \E t \in AccessTokens, b \in Operands :
          ListBounded /\ create_calculation(t, "add", 2, b)
    \/ \E t \in AccessTokens, c \in ListIds :
          update_calculation(t, c, UpdateData(Unset, None, 0))
    \/ \E t \in AccessTokens, c \in ListIds : delete_calculation(t, c)
    \/ \E t \in AccessTokens, s \in ListSkips, l \in ListLimits :
          list_calculations(t, s, l)

SpecList == Init /\ [][NextList]_vars

\* Requests in progress and a crash of the server: one account, two requests
\* at a time, each followed statement by statement and interleaved with the
\* other, with the clock and with the crash
NextCrash ==
    \/ register_user("alice", "alice@x.org", "secret1") /\ TokensBounded
    \/ forgot_password("alice@x.org") /\ TokensBounded
    \/ \E s \in Slots, t \in OpaqueTokens : Begin(s, "verify_email", t, "")
    \/ \E s \in Slots, t \in OpaqueTokens, p \in NewPasswords :
          Begin(s, "reset_password", t, p)
    \/ \E s \in Slots : verify_email_lookup(s)
    \/ \E s \in Slots : verify_email_check(s)
    \/ \E s \in Slots : verify_email_commit(s)
    \/ \E s \in Slots : verify_email_respond(s)
    \/ \E s \in Slots : reset_password_lookup(s)
    \/ \E s \in Slots : reset_password_check(s)
    \/ \E s \in Slots : reset_password_write(s)
    \/ \E s \in Slots : reset_password_commit(s)
    \/ \E s \in Slots : reset_password_respond(s)
    \/ Crash
    \/ \E d \in Expiries : Tick(d)

SpecCrash == Init /\ [][NextCrash]_vars

\* the new passwords of concurrent resets: two that are accepted and differ,
\* and one that is too short
RacePasswords == {"secret2", "secret3", "abc"}

\* Two reset_password requests at a time, interleaved statement by statement
NextRace ==
    \/ register_user("alice", "alice@x.org", "secret1") /\ TokensBounded
    \/ forgot_password("alice@x.org") /\ TokensBounded
    \/ \E s \in Slots, t \in OpaqueTokens, p \in RacePasswords :
          Begin(s, "reset_password", t, p)
    \/ \E s \in Slots : reset_password_lookup(s)
    \/ \E s \in Slots : reset_password_check(s)
    \/ \E s \in Slots : reset_password_write(s)
    \/ \E s \in Slots : reset_password_commit(s)
    \/ \E s \in Slots : reset_password_respond(s)
    \/ \E d \in {PASSWORD_RESET_EXPIRE_MINUTES + 1} : Tick(d)

SpecRace == Init /\ [][NextRace]_vars

---------------------------------------------------------------------------
(* Properties *)

\* an opaque token that has been drawn from the generator
Drawn(t) == t < nextTok
StoredReset(t) == \E i \in UserIds : users[i].reset_token = t
StoredVerification(t) == \E i \in UserIds : users[i].verification_token = t
\* a drawn token that is no user's reset token (any more)
SpentReset(t) == Drawn(t) /\ ~StoredReset(t)
\* a drawn token that is no user's verification token (any more)
SpentVerification(t) == Drawn(t) /\ ~StoredVerification(t)
Mailed(task, t) == \E m \in outbox : m.task = task /\ m.token = t
\* t was mailed as a reset token, and is the only reset token ever mailed
\* to that address (so it was never replaced by a newer one)
OnlyResetMail(t) ==
    \E m \in outbox :
        /\ m.task = "send_password_reset_email" /\ m.token = t
        /\ \A m2 \in outbox :
              (m2.task = "send_password_reset_email" /\ m2.to = m.to) => m2 = m

InvalidResetToken == HTTPException(400, "Invalid reset token")

\* C1, as stated: once forgot_password has issued a reset token, the first
\* reset_password call with that token and a password of at least 6
\* characters succeeds (a token still stored has not been used with success
\* yet).  Violated: the call fails once the token's hour has passed.
C1_FirstResetSucceeds ==
    [][\A t \in OpaqueTokens, p \in Passwords :
          (/\ Mailed("send_password_reset_email", t)
           /\ StoredReset(t)
           /\ Len(p) >= MinPasswordLen
           /\ reset_password(t, p))
          => resp'.status = 200]_vars

\* C1, amended: a reset token is single-use.  A reset_password call with a
\* token that is a user's stored reset token and not past its expiry, and a
\* password of at least 6 characters, succeeds, replaces that user's password
\* and leaves the token spent; a spent token stays spent; and every
\* reset_password call with a spent token fails with 400 "Invalid reset
\* token" and leaves every user unchanged.
C1_ResetTokenSingleUse ==
    [][/\ \A t \in OpaqueTokens, p \in Passwords :
             (/\ \E i \in UserIds : /\ users[i].reset_token = t
                                    /\ now <= users[i].reset_token_expires
              /\ Len(p) >= MinPasswordLen
              /\ reset_password(t, p))
             => /\ resp'.status = 200
                /\ \E i \in UserIds : /\ users[i].reset_token = t
                                      /\ users'[i].password = hash_password(p)
                /\ SpentReset(t)'
       /\ \A t \in OpaqueTokens : SpentReset(t) => SpentReset(t)'
       /\ \A t \in OpaqueTokens, p \in Passwords :
             (SpentReset(t) /\ reset_password(t, p))
             => (resp' = InvalidResetToken /\ users' = users)]_vars

\* C1, witness: a token that was mailed as the only reset token of its
\* address is no longer stored, so a reset succeeded with it, and the call
\* handled last presented it again with an acceptable password and was
\* refused as invalid.
C1_Witness ==
    /\ req.op = "reset_password"
    /\ resp = InvalidResetToken
    /\ Len(req.args[2]) >= MinPasswordLen
    /\ OnlyResetMail(req.args[1])
    /\ SpentReset(req.args[1])

GenericResetResponse ==
    Response(200, "If the email exists, a password reset link has been sent.", <<>>, <<>>)

\* C6: forgot_password answers every e-mail address with the same generic
\* success response.  When a user has the address, that user (and no other)
\* gets a fresh reset token that expires one hour from now and the reset
\* e-mail carrying it is queued; when no user has it, no user record
\* changes, no token is drawn and nothing is queued.
C6_ForgotPasswordGeneric ==
    [][\A e \in Emails :
          forgot_password(e) =>
            /\ resp' = GenericResetResponse
            /\ IF \E i \in UserIds : users[i].email = e
               THEN \E i \in UserIds :
                      /\ users[i].email = e
                      /\ users'[i].reset_token = nextTok
                      /\ ~Drawn(nextTok)
                      /\ users'[i].reset_token_expires = now + MinutesPerHour
                      /\ users'[i] = [users[i] EXCEPT
                                         !.reset_token = users'[i].reset_token,
                                         !.reset_token_expires = users'[i].reset_token_expires]
                      /\ \A j \in UserIds \ {i} : users'[j] = users[j]
                      /\ Len(users') = Len(users)
                      /\ outbox' = outbox \cup
                            {[task |-> "send_password_reset_email", to |-> e,
                              token |-> nextTok]}
                      /\ nextTok' = nextTok + 1
               ELSE /\ users' = users
                    /\ outbox' = outbox
                    /\ nextTok' = nextTok]_vars

\* C6, witness: the request handled last asked for a reset of an address
\* that no user has, and got the generic response, after another user's
\* request had queued a reset e-mail.
C6_Witness ==
    /\ req.op = "forgot_password"
    /\ ~\E i \in UserIds : users[i].email = req.args[1]
    /\ resp = GenericResetResponse
    /\ \E m \in outbox : m.task = "send_password_reset_email"
    /\ ~\E m \in outbox : m.to = req.args[1]

\* t was mailed as a verification token, and is the only verification token
\* ever mailed to that address
OnlyVerificationMail(t) ==
    \E m \in outbox :
        /\ m.task = "send_verification_email" /\ m.token = t
        /\ \A m2 \in outbox :
              (m2.task = "send_verification_email" /\ m2.to = m.to) => m2 = m
        /\ \E i \in UserIds : users[i].email = m.to /\ users[i].is_verified

InvalidVerificationToken == HTTPException(400, "Invalid verification token")

\* C2: a verification token is single-use.  A verify_email call that
\* succeeds with a token makes the user who stored it verified, clears that
\* user's verification token and expiry and leaves the token spent; a spent
\* token stays spent; and every verify_email call with a spent token fails
\* with 400 "Invalid verification token" (not the expired-token error) and
\* changes no user.
C2_VerificationTokenSingleUse ==
    [][/\ \A t \in OpaqueTokens :
             (verify_email(t) /\ resp'.status = 200)
             => /\ \E i \in UserIds :
                      /\ users[i].verification_token = t
                      /\ users'[i].is_verified
                      /\ users'[i].verification_token = None
                      /\ users'[i].verification_token_expires = None
                /\ SpentVerification(t)'
       /\ \A t \in OpaqueTokens : SpentVerification(t) => SpentVerification(t)'
       /\ \A t \in OpaqueTokens :
             (SpentVerification(t) /\ verify_email(t))
             => (resp' = InvalidVerificationToken /\ users' = users)]_vars

\* C2, witness: the only verification token ever mailed to a user who is
\* now verified is no longer stored, and the call handled last presented it
\* again and was refused as invalid.
C2_Witness ==
    /\ req.op = "verify_email"
    /\ resp = InvalidVerificationToken
    /\ OnlyVerificationMail(req.args[1])
    /\ SpentVerification(req.args[1])

\* user i is the account that name and password are the right credentials of
CorrectCredentials(i, name, password) ==
    /\ users[i].username = name \/ users[i].email = name
    /\ users[i].password = hash_password(password)

LoginNames == Usernames \cup Emails

EmailNotVerified ==
    HTTPException(403, "Please verify your email before logging in. Check your inbox for the verification link.")
AccountInactive == HTTPException(403, "Account is inactive. Please contact support.")

UnknownName(name) == ~\E i \in UserIds : users[i].username = name \/ users[i].email = name
WrongPassword(name, password) ==
    /\ ~UnknownName(name)
    /\ ~\E i \in UserIds : CorrectCredentials(i, name, password)

InvalidCredentials ==
    Response(401, "Incorrect username or password", <<"WWW-Authenticate", "Bearer">>, <<>>)

\* C5: in every state the response login computes for an unknown username
\* or e-mail equals the one it computes for a known user with a wrong
\* password (401, same detail, same headers), and a login of either kind
\* changes nothing in the store.
C5_LoginNoEnumeration ==
    /\ [](\A n1 \in LoginNames, n2 \in LoginNames, p1 \in Passwords, p2 \in Passwords :
            (UnknownName(n1) /\ WrongPassword(n2, p2))
            => /\ login_response(n1, p1) = login_response(n2, p2)
               /\ login_response(n1, p1) = InvalidCredentials)
    /\ [][\A n \in LoginNames, p \in Passwords :
            (login(n, p) /\ (UnknownName(n) \/ WrongPassword(n, p)))
            => /\ resp' = InvalidCredentials
               /\ UNCHANGED <<users, calcs, nextCalcId, nextTok, issued, outbox>>]_vars

\* C5, witness: the login handled last named nobody and got the 401, in a
\* state where another name is known and has a wrong password to try.
C5_Witness ==
    /\ req.op = "login"
    /\ UnknownName(req.args[1])
    /\ resp = InvalidCredentials
    /\ \E n \in LoginNames, p \in Passwords : WrongPassword(n, p)

NoAccount(email) == ~\E i \in UserIds : users[i].email = email
UnverifiedAccount(email) == \E i \in UserIds : users[i].email = email /\ ~users[i].is_verified

\* C7: resend_verification_email answers the e-mail of an existing
\* unverified account exactly as it answers an e-mail that has no account:
\* the response just given to a resend for an unverified account is the one
\* an address without account gets.
\* Violated: the two 200 responses carry different messages.
C7_ResendNoEnumeration ==
    \A e \in Emails :
        (/\ req.op = "resend_verification"
         /\ UnverifiedAccount(req.args[1])
         /\ NoAccount(e))
        => resp = resend_verification_response(e)

CalculationNotFound == HTTPException(404, "Calculation not found")
RowsOf(owner) == {i \in CalcIdx : calcs[i].user_id = owner}
NoSuchId(id) == ~\E i \in CalcIdx : calcs[i].id = id

\* C8: calculations are isolated by owner.  For every stored calculation
\* and every access token of another user, get, update and delete with the
\* calculation's id answer 404 "Calculation not found", exactly as they do
\* for an id that no calculation has, and leave the table unchanged; every
\* row list returns belongs to the caller, and stats counts the caller's
\* rows only.
C8_OwnerIsolation ==
    [][/\ \A t \in AccessTokens, c \in CalcIds :
             ((\E i \in CalcIdx : calcs[i].id = c /\ calcs[i].user_id # t.sub) \/ NoSuchId(c))
             => /\ get_calculation(t, c) => (resp' = CalculationNotFound /\ calcs' = calcs)
                /\ delete_calculation(t, c) => (resp' = CalculationNotFound /\ calcs' = calcs)
                /\ \A u \in SomeUpdates :
                      update_calculation(t, c, u) => (resp' = CalculationNotFound /\ calcs' = calcs)
       /\ \A t \in AccessTokens, sk \in Skips, l \in Limits :
             list_calculations(t, sk, l)
             => \A k \in 1..Len(resp'.data) : resp'.data[k].user_id = t.sub
       /\ \A t \in AccessTokens :
             get_calculation_stats(t)
             => /\ resp'.data[1] = Cardinality(RowsOf(t.sub))
                /\ \A op \in DOMAIN resp'.data[2] :
                      resp'.data[2][op] =
                          Cardinality({i \in RowsOf(t.sub) : calcs[i].operation = op})]_vars

\* C8, witness: the request handled last was a get with the id of a stored
\* calculation that belongs to another user than the caller, and it was
\* answered 404.
C8_Witness ==
    /\ req.op = "get_calculation"
    /\ resp = CalculationNotFound
    /\ \E i \in CalcIdx : calcs[i].id = req.args[2] /\ calcs[i].user_id # req.args[1].sub

\* r is the result of the operation on a and b
IsResult(operation, a, b, r) ==
    \/ operation = "add" /\ r = a + b
    \/ operation = "subtract" /\ r + b = a
    \/ operation = "multiply" /\ r = a * b
    \/ operation = "divide" /\ b # 0 /\ r * b = a

\* C9: every stored calculation holds the result of its operation on its
\* operands; and an update that succeeds sets exactly the fields it
\* supplies, keeps the others, and stores the result of the row as updated,
\* also when it supplies no field at all.
C9_ResultConsistent ==
    /\ [](\A i \in CalcIdx :
            IsResult(calcs[i].operation, calcs[i].operand1, calcs[i].operand2,
                     calcs[i].result))
    /\ [][\A t \in AccessTokens, c \in CalcIds, u \in SomeUpdates :
            (update_calculation(t, c, u) /\ resp'.status = 200)
            => \E i \in CalcIdx :
                  /\ calcs[i].id = c /\ calcs[i].user_id = t.sub
                  /\ Len(calcs') = Len(calcs)
                  /\ \A j \in CalcIdx \ {i} : calcs'[j] = calcs[j]
                  /\ calcs'[i].id = c /\ calcs'[i].user_id = t.sub
                  /\ \A k \in {"operation", "operand1", "operand2"} :
                        calcs'[i][k] = IF k \in DOMAIN u THEN u[k] ELSE calcs[i][k]
                  /\ IsResult(calcs'[i].operation, calcs'[i].operand1,
                              calcs'[i].operand2, calcs'[i].result)
                  /\ resp'.data = <<calcs'[i]>>]_vars

\* C9, witness: the request handled last was an update that changed the
\* operation alone, and the stored row holds the result of the new
\* operation, which differs from the result of the old one (2 + 2 against
\* 2 / 2).
C9_Witness ==
    /\ req.op = "update_calculation"
    /\ resp.status = 200
    /\ DOMAIN req.args[3] = {"operation"}
    /\ \E i \in CalcIdx :
          /\ calcs[i].id = req.args[2]
          /\ calcs[i].operation = "divide"
          /\ calcs[i].operand1 = 2 /\ calcs[i].operand2 = 2
          /\ calcs[i].result = 1

\* C10: create_calculation with operation divide and a second operand of
\* zero is rejected with the division-by-zero error and stores nothing: the
\* table and the next id are the same after the call as before it.
C10_DivideByZeroRejected ==
    [][\A t \in AccessTokens, a \in Operands :
          create_calculation(t, "divide", a, 0)
          => /\ resp'.status = 400
             /\ resp'.detail = "Cannot divide by zero"
             /\ calcs' = calcs
             /\ nextCalcId' = nextCalcId]_vars

\* C10, witness: the request handled last was a creation of a division by
\* zero and was rejected, in a state where another creation had been stored.
C10_Witness ==
    /\ req.op = "create_calculation"
    /\ req.args[2] = "divide"
    /\ req.args[4] = 0
    /\ resp.status = 400
    /\ Len(calcs) > 0
    /\ \A i \in CalcIdx : ~(calcs[i].operation = "divide" /\ calcs[i].operand2 = 0)

VerificationTokenExpired ==
    HTTPException(400, "Verification token has expired. Please request a new one.")
ResetTokenExpired ==
    HTTPException(400, "Reset token has expired. Please request a new one.")

\* C11: a stored opaque token presented after its expiry instant fails as
\* expired and changes nothing.  A verification token is given the expiry
\* now + 24 h when it is issued and a reset token the expiry now + 1 h;
\* verify_email with a stored verification token past its expiry answers
\* 400 "Verification token has expired" and leaves every user as it was (so
\* unverified); reset_password with a stored reset token past its expiry
\* answers 400 "Reset token has expired" and leaves every user as it was (so
\* the password is unchanged), whatever the new password; and a token that
\* no user stores is answered 400 "Invalid ... token" by both.
C11_ExpiredTokenFails ==
    [][/\ \A i \in Identities :
             (register_user(i[1], i[2], "secret1") /\ Len(users') > Len(users))
             => users'[Len(users')].verification_token_expires = now + 24 * 60
       /\ \A e \in Emails, i \in UserIds :
             (forgot_password(e) /\ users[i].email = e)
             => users'[i].reset_token_expires = now + 60
       /\ \A t \in OpaqueTokens :
             verify_email(t)
             => /\ (\E i \in UserIds : /\ users[i].verification_token = t
                                       /\ now > users[i].verification_token_expires)
                   => (resp' = VerificationTokenExpired /\ users' = users /\ outbox' = outbox)
                /\ (~StoredVerification(t))
                   => (resp' = InvalidVerificationToken /\ users' = users /\ outbox' = outbox)
       /\ \A t \in OpaqueTokens, p \in NewPasswords :
             reset_password(t, p)
             => /\ (\E i \in UserIds : /\ users[i].reset_token = t
                                       /\ now > users[i].reset_token_expires)
                   => (resp' = ResetTokenExpired /\ users' = users)
                /\ (~StoredReset(t))
                   => (resp' = InvalidResetToken /\ users' = users)]_vars

\* C11, witness: the request handled last presented a stored reset token,
\* more than an hour after it was issued, with an acceptable new password; it
\* was refused as expired and the user still has the registered password,
\* and is still unverified because the verification token has expired too.
C11_Witness ==
    /\ req.op = "reset_password"
    /\ resp = ResetTokenExpired
    /\ Len(req.args[2]) >= MinPasswordLen
    /\ \E i \in UserIds :
          /\ users[i].reset_token = req.args[1]
          /\ now > users[i].reset_token_expires
          /\ users[i].password = hash_password("secret1")
          /\ ~users[i].is_verified
          /\ users[i].verification_token # None
          /\ now > users[i].verification_token_expires

WeakPassword == HTTPException(400, "Password must be at least 6 characters long")

\* C12: reset_password with a new password of fewer than 6 characters makes
\* its checks in the order invalid token, expired token, weak password: a
\* token no user stores is answered 400 "Invalid reset token", a stored token
\* past its expiry 400 "Reset token has expired", and a stored, unexpired
\* token 400 "Password must be at least 6 characters long"; in every case
\* no user record changes, so the password, the reset token and its expiry
\* stay as they were.  And when the request handled last was refused as weak
\* and its token is still stored and unexpired, reset_password with that
\* token and a password of at least 6 characters succeeds and stores the new
\* password.
C12_WeakPasswordKeepsToken ==
    [][/\ \A t \in OpaqueTokens, p \in Passwords :
             (Len(p) < 6 /\ reset_password(t, p))
             => /\ users' = users
                /\ (~StoredReset(t)) => resp' = InvalidResetToken
                /\ (\E i \in UserIds : /\ users[i].reset_token = t
                                       /\ now > users[i].reset_token_expires)
                   => resp' = ResetTokenExpired
                /\ (\E i \in UserIds : /\ users[i].reset_token = t
                                       /\ now <= users[i].reset_token_expires)
                   => resp' = WeakPassword
       /\ \A t \in OpaqueTokens, p \in Passwords :
             (/\ req.op = "reset_password" /\ req.args[1] = t /\ resp = WeakPassword
              /\ \E i \in UserIds : /\ users[i].reset_token = t
                                    /\ now <= users[i].reset_token_expires
              /\ Len(p) >= 6
              /\ reset_password(t, p))
             => /\ resp'.status = 200
                /\ \E i \in UserIds : /\ users[i].reset_token = t
                                      /\ users'[i].password = hash_password(p)
                                      /\ users'[i].reset_token = None
                                      /\ users'[i].reset_token_expires = None]_vars

\* C12, witness: the request handled last presented a stored, unexpired
\* reset token with a password of 3 characters and was refused as weak; the
\* token is still stored and the user still has the registered password.
C12_Witness ==
    /\ req.op = "reset_password"
    /\ resp = WeakPassword
    /\ Len(req.args[2]) < 6
    /\ \E i \in UserIds :
          /\ users[i].reset_token = req.args[1]
          /\ now <= users[i].reset_token_expires
          /\ \E m \in outbox : m.task = "send_password_reset_email" /\ m.token = req.args[1]
          /\ \E p \in Passwords : Len(p) >= 6 /\ users[i].password = hash_password(p)

\* t is a token this service signed, of the kind given, not past its expiry,
\* whose user exists and is active
ValidToken(t, kind) ==
    /\ t \in issued
    /\ t.kind = kind
    /\ now <= t.exp
    /\ t.sub \in UserIds
    /\ users[t.sub].is_active
UserNotFoundOrInactive == HTTPException(401, "User not found or inactive")
InvalidRefresh ==
    Response(401, "Invalid refresh token", <<"WWW-Authenticate", "Bearer">>, <<>>)

\* C13: refresh issues a new token pair exactly when the presented token is
\* a signed, unexpired refresh token of a user that exists and is active: it
\* then answers 200 with an access token (30 minutes) and a refresh token
\* (7 days) for that user; in every other case (token not signed, of the
\* wrong kind or expired; user removed; user inactive) it answers 401 and
\* issues nothing; and it never changes a user record.
C13_RefreshRequiresActiveUser ==
    [][\A t \in PresentedTokens :
          refresh_token(t)
          => /\ users' = users
             /\ IF ValidToken(t, "refresh")
                THEN /\ resp'.status = 200
                     /\ resp'.data[1] = [kind |-> "access", sub |-> t.sub, exp |-> now + 30]
                     /\ resp'.data[2] = [kind |-> "refresh", sub |-> t.sub,
                                         exp |-> now + 7 * 24 * 60]
                     /\ resp'.data[5] = t.sub
                     /\ issued' = issued \cup {resp'.data[1], resp'.data[2]}
                ELSE /\ resp'.status = 401
                     /\ resp'.data = <<>>
                     /\ issued' = issued
                     /\ (t \in issued /\ t.kind = "refresh" /\ now <= t.exp)
                        => resp' = UserNotFoundOrInactive
                     /\ (t \notin issued \/ now > t.exp) => resp' = InvalidRefresh]_vars

\* C13, witness: the request handled last presented a signed, unexpired
\* refresh token whose user has been removed, and was answered 401 "User not
\* found or inactive".
C13_Witness ==
    /\ req.op = "refresh_token"
    /\ resp = UserNotFoundOrInactive
    /\ req.args[1] \in issued
    /\ req.args[1].kind = "refresh"
    /\ now <= req.args[1].exp
    /\ req.args[1].sub \notin UserIds

\* C14: refresh accepts only tokens of kind refresh: every access token that
\* login or refresh issued, presented to refresh_token, is answered 401
\* "Invalid refresh token" and no token is issued, also while the access
\* token is unexpired and its user exists and is active.
C14_RefreshRejectsAccessToken ==
    [][\A t \in PresentedTokens :
          (t.kind = "access" /\ refresh_token(t))
          => (resp' = InvalidRefresh /\ issued' = issued /\ users' = users)]_vars

\* C14, witness: the request handled last presented to refresh an access
\* token that login issued, unexpired, of an existing active user, and was
\* answered 401 "Invalid refresh token".
C14_Witness ==
    /\ req.op = "refresh_token"
    /\ resp = InvalidRefresh
    /\ ValidToken(req.args[1], "access")

\* C15: refresh performs no rotation-invalidation.  A refresh never removes
\* a signed token and changes no user; a valid refresh token stops being
\* valid only when the clock advances or a user record changes; and when
\* the request handled last was a successful refresh with R, and R is
\* unexpired and its user still exists and is active, a refresh with R
\* succeeds again.
C15_RefreshTokenReusable ==
    [][/\ \A t \in PresentedTokens :
             refresh_token(t) => (issued \subseteq issued' /\ users' = users)
       /\ \A t \in PresentedTokens :
             (ValidToken(t, "refresh") /\ ~ValidToken(t, "refresh")')
             => (now' # now \/ users' # users)
       /\ \A t \in PresentedTokens :
             (/\ req.op = "refresh_token" /\ req.args[1] = t /\ resp.status = 200
              /\ ValidToken(t, "refresh")
              /\ refresh_token(t))
             => (resp'.status = 200 /\ ValidToken(t, "refresh")')]_vars

\* C15, witness: the request handled last was a successful refresh with a
\* refresh token R issued earlier (the token returned expires later than
\* R); R is still valid, and the user has two valid refresh tokens.
C15_Witness ==
    /\ req.op = "refresh_token"
    /\ resp.status = 200
    /\ req.args[1].exp < resp.data[2].exp
    /\ ValidToken(req.args[1], "refresh")
    /\ ValidToken(resp.data[2], "refresh")
    /\ resp.data[2].sub = req.args[1].sub

\* C16: logout changes no stored state and revokes nothing: users, signed
\* tokens, calculations and queued e-mails are the same after it as before,
\* so every token is valid after it exactly when it was before; and when
\* the request handled last was a successful logout with access token t and
\* t is unexpired and its user active, get_current_user_info with t is
\* answered 200 and a refresh with a valid refresh token of the same user
\* is answered 200.
C16_LogoutRevokesNothing ==
    [][/\ \A t \in PresentedTokens :
             logout(t)
             => /\ users' = users /\ issued' = issued
                /\ calcs' = calcs /\ outbox' = outbox
                /\ \A k \in PresentedTokens :
                      /\ ValidToken(k, "access")' = ValidToken(k, "access")
                      /\ ValidToken(k, "refresh")' = ValidToken(k, "refresh")
                /\ resp'.status = IF ValidToken(t, "access") THEN 200 ELSE 401
       /\ \A t \in PresentedTokens :
             (/\ req.op = "logout" /\ req.args[1] = t /\ resp.status = 200
              /\ ValidToken(t, "access"))
             => /\ get_current_user_info(t) => resp'.status = 200
                /\ \A r \in PresentedTokens :
                      (ValidToken(r, "refresh") /\ r.sub = t.sub /\ refresh_token(r))
                      => resp'.status = 200]_vars

\* C16, witness: the request handled last was a logout answered 200; the
\* access token it carried is still valid and so is a refresh token of the
\* same user.
C16_Witness ==
    /\ req.op = "logout"
    /\ resp.status = 200
    /\ ValidToken(req.args[1], "access")
    /\ \E r \in issued : ValidToken(r, "refresh") /\ r.sub = req.args[1].sub

\* C17: no two stored users share a username or an e-mail.  register with a
\* username or an e-mail that a stored user has is answered 400, stores no
\* user, draws no token and queues no e-mail; any other register is
\* answered 201 and appends exactly one user, with the username, e-mail and
\* hashed password given, active, unverified, with a fresh verification
\* token that expires in 24 hours, and queues the verification e-mail that
\* carries this token.
C17_UniqueIdentity ==
    /\ [](\A i \in UserIds, j \in UserIds :
            (i # j) => (users[i].username # users[j].username
                        /\ users[i].email # users[j].email))
    /\ [][\A n \in Usernames, e \in Emails, p \in Passwords :
            register_user(n, e, p)
            => IF \E i \in UserIds : users[i].username = n \/ users[i].email = e
               THEN /\ resp'.status = 400
                    /\ users' = users
                    /\ nextTok' = nextTok
                    /\ outbox' = outbox
               ELSE /\ resp'.status = 201
                    /\ Len(users') = Len(users) + 1
                    /\ \A i \in UserIds : users'[i] = users[i]
                    /\ LET u == users'[Len(users')] IN
                          /\ u.username = n /\ u.email = e
                          /\ u.password = hash_password(p)
                          /\ u.is_active /\ ~u.is_verified
                          /\ u.verification_token # None
                          /\ ~Drawn(u.verification_token)
                          /\ u.verification_token < nextTok'
                          /\ u.verification_token_expires = now + 24 * 60
                          /\ u.reset_token = None
                          /\ outbox' = outbox \cup
                                {[task |-> "send_verification_email", to |-> e,
                                  token |-> u.verification_token]}]_vars

\* C17, witness: the request handled last tried to register a username that
\* a stored user has, with an e-mail that no user has; it was answered 400,
\* no user has that e-mail and no e-mail was queued to it.
C17_Witness ==
    /\ req.op = "register"
    /\ resp.status = 400
    /\ \E i \in UserIds : users[i].username = req.args[1]
    /\ ~\E i \in UserIds : users[i].email = req.args[2]
    /\ ~\E m \in outbox : m.to = req.args[2]

\* the state transition that queued e-mail m is stored in the table given
Committed(m, table) ==
    \E i \in 1..Len(table) :
        /\ table[i].email = m.to
        /\ \/ m.task = "send_verification_email"
              /\ table[i].verification_token = m.token /\ ~table[i].is_verified
           \/ m.task = "send_password_reset_email"
              /\ table[i].reset_token = m.token
           \/ m.task = "send_welcome_email"
              /\ table[i].is_verified /\ table[i].verification_token = None

\* C18: e-mail delivery failure never affects account state or the caller.
\* An e-mail task is queued only by a request that succeeds, and the state
\* transition it announces (the new user or the new verification token, the
\* reset token, the verification) is stored when it is queued; running the
\* task, delivered or not, changes no user, no signed token, no calculation,
\* no queued task, and neither the request handled last nor its response:
\* it only yields True or False; and the verification token of an e-mail
\* whose send failed, still stored and unexpired, verifies the account.
C18_MailFailureIsolated ==
    [][/\ \A m \in outbox' \ outbox :
             /\ resp'.status \in {200, 201}
             /\ Committed(m, users')
       /\ \A m \in outbox, delivered \in BOOLEAN :
             _send_email(m, delivered)
             => /\ users' = users /\ issued' = issued /\ calcs' = calcs
                /\ nextTok' = nextTok /\ outbox' = outbox
                /\ req' = req /\ resp' = resp
                /\ sent' = sent \cup {[mail |-> m, result |-> delivered]}
       /\ \A t \in OpaqueTokens :
             (/\ \E r \in sent : /\ ~r.result
                                 /\ r.mail.task = "send_verification_email"
                                 /\ r.mail.token = t
              /\ \E i \in UserIds : /\ users[i].verification_token = t
                                    /\ now <= users[i].verification_token_expires
              /\ verify_email(t))
             => (resp'.status = 200
                 /\ \E i \in UserIds : users[i].verification_token = t /\ users'[i].is_verified)]_vars

\* C18, witness: the verification e-mail of the registration handled last
\* was not delivered (its send returned False); the response is still the
\* 201 of the registration and the user is stored with the token of that
\* e-mail.
C18_Witness ==
    /\ req.op = "register"
    /\ resp.status = 201
    /\ \E r \in sent :
          /\ ~r.result
          /\ r.mail.task = "send_verification_email"
          /\ r.mail.to = req.args[2]
          /\ Committed(r.mail, users)

\* the response is an error
IsError(r) == r.status >= 400
\* nothing the request did is stored: the tables are as they were, no id
\* and no token was consumed, and no e-mail task was queued
NothingPersisted ==
    /\ users' = users
    /\ calcs' = calcs
    /\ nextCalcId' = nextCalcId
    /\ nextTok' = nextTok
    /\ outbox' = outbox

MutatingHandlers ==
    {"register", "verify_email", "resend_verification", "forgot_password",
     "reset_password", "create_calculation", "update_calculation",
     "delete_calculation"}

RankOf(i, owner) == Cardinality({j \in RowsOf(owner) : j < i})

\* C20, as stated: list_calculations returns the owner's records in creation
\* order with the first skip dropped and at most limit kept: exactly the
\* owner's rows whose position in creation order is at least skip and less
\* than skip + limit, in ascending order of creation (ids are given in
\* creation order).  Violated: the query has no order_by, so the rows of a
\* page come in the order of the database's scan.
C20_ListInCreationOrder ==
    [][\A t \in AccessTokens, s \in ListSkips, l \in ListLimits :
          list_calculations(t, s, l)
          => /\ {resp'.data[k] : k \in 1..Len(resp'.data)} =
                   {calcs[i] : i \in {j \in RowsOf(t.sub) :
                                         RankOf(j, t.sub) >= s /\ RankOf(j, t.sub) < s + l}}
             /\ \A k \in 1..(Len(resp'.data) - 1) :
                   resp'.data[k].id < resp'.data[k + 1].id]_vars

AlreadyVerified == HTTPException(400, "Email is already verified")

\* C22: resend_verification_email for an address that a user has.  When the
\* user is verified it answers 400 "Email is already verified" and changes
\* nothing; when the user is unverified it answers 200, stores a fresh
\* verification token that expires 24 hours from now in place of the old
\* one (no other field and no other user changes) and queues the e-mail
\* that carries the new token, so that the old token is stored by no user.
\* verify_email with a token that no user stores answers 400 "Invalid
\* verification token" and changes nothing, and verify_email with the
\* stored, unexpired token verifies the user.
C22_ResendReplacesToken ==
    [][/\ \A e \in Emails, i \in UserIds :
             (users[i].email = e /\ resend_verification_email(e))
             => IF users[i].is_verified
                THEN /\ resp' = AlreadyVerified
                     /\ users' = users /\ outbox' = outbox /\ nextTok' = nextTok
                ELSE /\ resp'.status = 200
                     /\ ~Drawn(users'[i].verification_token)
                     /\ users'[i].verification_token < nextTok'
                     /\ users'[i].verification_token # users[i].verification_token
                     /\ users'[i].verification_token_expires = now + 24 * 60
                     /\ users'[i] = [users[i] EXCEPT
                           !.verification_token = users'[i].verification_token,
                           !.verification_token_expires = users'[i].verification_token_expires]
                     /\ Len(users') = Len(users)
                     /\ \A j \in UserIds \ {i} : users'[j] = users[j]
                     /\ ~\E j \in 1..Len(users') :
                           users'[j].verification_token = users[i].verification_token
                     /\ outbox' = outbox \cup
                           {[task |-> "send_verification_email", to |-> e,
                             token |-> users'[i].verification_token]}
       /\ \A t \in OpaqueTokens :
             verify_email(t)
             => /\ SpentVerification(t)
                   => (resp' = InvalidVerificationToken /\ users' = users)
                /\ \A i \in UserIds :
                      (/\ users[i].verification_token = t
                       /\ now <= users[i].verification_token_expires)
                      => (resp'.status = 200 /\ users'[i].is_verified)]_vars

\* C22, witness: the request handled last presented the verification token
\* of a registration after a resend had replaced it (a later verification
\* e-mail went to the same address); it was refused as invalid, and the user
\* is unverified and stores the token of the later e-mail.
C22_Witness ==
    /\ req.op = "verify_email"
    /\ resp = InvalidVerificationToken
    /\ \E m \in outbox, m2 \in outbox, i \in UserIds :
          /\ m.task = "send_verification_email" /\ m.token = req.args[1]
          /\ m2.task = "send_verification_email" /\ m2.to = m.to
          /\ m2.token > m.token
          /\ users[i].email = m.to
          /\ ~users[i].is_verified
          /\ users[i].verification_token = m2.token
\* the request in slot s has passed its db.commit()
PastCommit(s) == txns[s].pc = "respond" \/ txns[s].status = 200

\* slot s takes the step db.commit()
Commits(s) == txns[s].pc = "commit" /\ txns'[s].pc = "respond"

\* C21: verify_email and reset_password are atomic with respect to a crash.
\* Every change of a request becomes durable in its one db.commit(): that step
\* marks the user verified and clears the verification token together, or
\* replaces the password and clears the reset token together, and changes no
\* other user; no other statement of a request changes any user, and neither
\* does a crash, so a request that crashes before its commit leaves the users
\* as they were.  Once a request has committed, crashed afterwards or not,
\* the token it carried is stored for no user.  In every durable state a
\* verified user has no verification token, and a step that changes a
\* password leaves that user without a reset token.
C21_CommitAtomic ==
    /\ [](/\ \A i \in UserIds :
                users[i].is_verified
                => /\ users[i].verification_token = None
                   /\ users[i].verification_token_expires = None
          /\ \A s \in Slots :
                PastCommit(s)
                => /\ txns[s].op = "verify_email" => ~StoredVerification(txns[s].token)
                   /\ txns[s].op = "reset_password" => ~StoredReset(txns[s].token))
    /\ [][/\ \A i \in UserIds :
                users'[i].password # users[i].password
                => /\ users'[i].reset_token = None
                   /\ users'[i].reset_token_expires = None
          /\ \A s \in Slots :
                (txns'[s] # txns[s] /\ ~Commits(s)) => users' = users
          /\ \A s \in Slots :
                (txns'[s].crashed /\ ~txns[s].crashed)
                => /\ users' = users
                   /\ \A r \in Slots : txns'[r].pc = txns[r].pc
                   /\ \A r \in Slots : Running(r) => txns'[r].crashed
          /\ \A s \in Slots :
                Commits(s)
                => /\ Len(users') = Len(users)
                   /\ \A j \in UserIds \ {txns[s].user} : users'[j] = users[j]
                   /\ txns[s].op = "verify_email"
                      => users'[txns[s].user] = Verified(users[txns[s].user])
                   /\ txns[s].op = "reset_password"
                      => users'[txns[s].user] =
                            [users[txns[s].user] EXCEPT
                                !.password = hash_password(txns[s].new_password),
                                !.reset_token = None,
                                !.reset_token_expires = None]]_vars

\* C21, witness: the server has crashed while one request, a reset_password
\* whose assignments were made and not yet committed, and another, a
\* verify_email that had committed and not yet answered, were in progress:
\* the user still has the old password and the reset token of the first
\* request, and is verified with no verification token.
C21_Witness ==
    \E s, r \in Slots :
       /\ txns[s].crashed /\ txns[s].op = "reset_password" /\ txns[s].pc = "commit"
       /\ users[txns[s].user].reset_token = txns[s].token
       /\ users[txns[s].user].password = hash_password("secret1")
       /\ txns[r].crashed /\ txns[r].op = "verify_email" /\ txns[r].pc = "respond"
       /\ users[txns[r].user].is_verified
       /\ users[txns[r].user].verification_token = None
       /\ ~StoredVerification(txns[r].token)
\* the reset_password request in slot s returned success
ResetSucceeded(s) == txns[s].op = "reset_password" /\ txns[s].status = 200

\* C23, as stated: of two reset_password requests that carry the same reset
\* token and run concurrently, at most one returns success, and the stored
\* password is the one that request supplied.  Violated: both requests look
\* the token up before either commits, and both return success.
C23_AtMostOneSuccess ==
    \A s, r \in Slots :
       (s # r /\ txns[s].token = txns[r].token /\ ResetSucceeded(s))
       => /\ ~ResetSucceeded(r)
          /\ users[txns[s].user].password = hash_password(txns[s].new_password)

\* C23, amended: single use of a reset token holds between requests that do
\* not overlap, and not between requests that do.  A request gets past its
\* lookup only with a token that is stored at that moment; a request whose
\* lookup runs when the token is stored for no user fails with 400 "Invalid
\* reset token" and changes nothing; the commit of a request writes the
\* password that request supplied and clears the reset token of the user it
\* loaded, whatever another request has committed in between, so the stored
\* password is always the registered one or that of a request that has
\* committed; and once a request has returned success the token it carried is
\* stored for no user.
C23_SingleUseBetweenCommits ==
    /\ [](/\ \A s \in Slots : ResetSucceeded(s) => ~StoredReset(txns[s].token)
          /\ \A i \in UserIds :
                \/ users[i].password = hash_password("secret1")
                \/ \E s \in Slots : /\ PastCommit(s)
                                    /\ txns[s].user = i
                                    /\ users[i].password = hash_password(txns[s].new_password))
    /\ [][\A s \in Slots :
             /\ (txns[s].pc = "lookup" /\ txns'[s].pc = "check")
                => /\ StoredReset(txns[s].token)
                   /\ users[txns'[s].user].reset_token = txns[s].token
             /\ (txns[s].pc = "lookup" /\ txns'[s] # txns[s] /\ ~StoredReset(txns[s].token))
                => /\ txns'[s].status = 400
                   /\ resp' = InvalidResetToken
                   /\ users' = users
             /\ Commits(s)
                => /\ users'[txns[s].user].password = hash_password(txns[s].new_password)
                   /\ users'[txns[s].user].reset_token = None
                   /\ users'[txns[s].user].reset_token_expires = None]_vars

\* C23, witness: two requests that carried the same reset token and different
\* passwords have both returned success, the token is stored for no user, and
\* the stored password is that of one of the two.
C23_Witness ==
    \E s, r \in Slots :
       /\ s # r
       /\ ResetSucceeded(s) /\ ResetSucceeded(r)
       /\ txns[s].token = txns[r].token
       /\ txns[s].new_password # txns[r].new_password
       /\ ~StoredReset(txns[s].token)
       /\ users[txns[s].user].password = hash_password(txns[s].new_password)

====
